---- MODULE Spec2Model ----
(***************************************************************************)
(* Model of the employee dashboards (src/app.py, src/dashboard.py).        *)
(*                                                                         *)
(* A Streamlit script is re-executed top to bottom on every user           *)
(* interaction; one action of this model is one such execution.  The state *)
(* that survives between executions is the source file, the st.cache_data  *)
(* cache and the widget values; df, filtered_df and err describe the       *)
(* outcome of the latest execution.                                        *)
(*                                                                         *)
(* Numbers are fixed-point with one decimal digit: the value held in the   *)
(* model is ten times the number (tenths), so "41.5" is 415.  The          *)
(* work-life-balance score, a sum of products with 0.4 and 0.3, is held in *)
(* hundredths.  Floating-point rounding is not modelled.                   *)
(***************************************************************************)
EXTENDS Integers, Sequences, FiniteSets, TLC

\* Largest number of data rows in work.csv.
MaxRows == 2
\* Largest number of widget changes in one session.
MaxEdits == 1

----------------------------------------------------------------------------
(* Values held in a dataframe cell *)

Str(s) == [t |-> "str", s |-> s, v |-> 0]
Num(n) == [t |-> "num", s |-> <<>>, v |-> n]
NaN == [t |-> "nan", s |-> <<>>, v |-> 0]
Date(n) == [t |-> "date", s |-> <<>>, v |-> n]
NaT == [t |-> "nat", s |-> <<>>, v |-> 0]

----------------------------------------------------------------------------
(* Parsing of CSV cells; a cell is a sequence of characters *)

Digits == <<"0", "1", "2", "3", "4", "5", "6", "7", "8", "9">>

IsDigit(c) == \E i \in 1..10 : Digits[i] = c

DigitVal(c) == (CHOOSE i \in 1..10 : Digits[i] = c) - 1

AllDigits(s) == Len(s) > 0 /\ \A i \in 1..Len(s) : IsDigit(s[i])

RECURSIVE DigitsVal(_)
DigitsVal(s) ==
    IF s = <<>> THEN 0
    ELSE 10 * DigitsVal(SubSeq(s, 1, Len(s) - 1)) + DigitVal(s[Len(s)])

\* digits, or digits "." digit
IsNumericCell(s) ==
    \/ AllDigits(s)
    \/ /\ Len(s) >= 3
       /\ s[Len(s) - 1] = "."
       /\ IsDigit(s[Len(s)])
       /\ AllDigits(SubSeq(s, 1, Len(s) - 2))

\* the number a numeric cell denotes, in tenths
ParseNumber(s) ==
    IF AllDigits(s) THEN 10 * DigitsVal(s)
    ELSE 10 * DigitsVal(SubSeq(s, 1, Len(s) - 2)) + DigitVal(s[Len(s)])

\* to_numeric that leaves an unparsable string in place (errors='ignore')
to_numeric_ignore(x) ==
    IF x.t = "str" /\ IsNumericCell(x.s) THEN Num(ParseNumber(x.s)) ELSE x

\* pd.to_numeric(column, errors='coerce'), on one value of the column
to_numeric(x) ==
    IF x.t = "str"
    THEN IF IsNumericCell(x.s) THEN Num(ParseNumber(x.s)) ELSE NaN
    ELSE x

IsLeap(y) == (y % 4 = 0 /\ y % 100 # 0) \/ y % 400 = 0

DaysInMonth(y, m) ==
    IF m = 2 THEN (IF IsLeap(y) THEN 29 ELSE 28)
    ELSE IF m \in {4, 6, 9, 11} THEN 30 ELSE 31

\* YYYY-MM-DD naming a day of the calendar
IsDateCell(s) ==
    /\ Len(s) = 10
    /\ s[5] = "-" /\ s[8] = "-"
    /\ AllDigits(SubSeq(s, 1, 4)) /\ AllDigits(SubSeq(s, 6, 7))
    /\ AllDigits(SubSeq(s, 9, 10))
    /\ LET y == DigitsVal(SubSeq(s, 1, 4))
           m == DigitsVal(SubSeq(s, 6, 7))
           d == DigitsVal(SubSeq(s, 9, 10))
       IN  m \in 1..12 /\ d >= 1 /\ d <= DaysInMonth(y, m)

ParseDate(s) ==
    10000 * DigitsVal(SubSeq(s, 1, 4)) + 100 * DigitsVal(SubSeq(s, 6, 7))
        + DigitsVal(SubSeq(s, 9, 10))

----------------------------------------------------------------------------
(* The source file work.csv *)

Row(dep, edu, zona, modo, gen, edad, sal, exper, sueno, ocio, sem, fecha) ==
    [departamento |-> dep, nivel_educacion |-> edu, zona_geografica |-> zona,
     modalidad_trabajo |-> modo, genero |-> gen,
     edad |-> edad, salario_anual |-> sal,
     experiencia_anos |-> exper, horas_sueno_noche |-> sueno,
     horas_ocio_semana |-> ocio, horas_semanales |-> sem,
     fecha_contratacion |-> fecha]

\* The rows a file is made of ("Maestria" stands for the accented level name
\* of the source).  Between them: every known education level
\* and an unknown one, integral and fractional numbers, non-numeric and
\* empty numeric cells, a valid, an empty and an impossible hire date.  The
\* hire dates are days of one week, so that a date range has few values.
RowSeq ==
    << Row("IT", "Licenciatura", "Norte", "Remoto", "F",
          <<"3","0">>, <<"4","0">>, <<"5">>,
          <<"8">>, <<"1","0">>, <<"4","0">>,
          <<"2","0","2","1","-","0","3","-","0","5">>),
      Row("HR", "Maestria", "Sur", "Presencial", "M",
          <<"3","1">>, <<"4","1",".","5">>, <<"7">>,
          <<"7",".","5">>, <<"4","0">>, <<"0">>,
          <<"2","0","2","1","-","0","3","-","0","6">>),
      Row("IT", "Doctorado", "Norte", "Remoto", "M",
          <<"x">>, <<"4","2">>, <<"9">>,
          <<"0">>, <<"0">>, <<"8","0">>,
          <<>>),
      Row("HR", "Bachillerato", "Sur", "Remoto", "F",
          <<"3","2">>, <<>>, <<"x">>,
          <<>>, <<"5">>, <<"4","5">>,
          <<"2","0","2","1","-","1","3","-","4","0">>),
      Row("IT", "Diplomado", "Norte", "Presencial", "M",
          <<"3","2">>, <<"4","1">>, <<"3">>,
          <<"6">>, <<"8">>, <<"5","0">>,
          <<"2","0","2","1","-","0","3","-","0","7">>),
      Row("HR", "Licenciatura", "Sur", "Remoto", "F",
          <<"3","1">>, <<"4","1">>, <<"4">>,
          <<"x">>, <<"8">>, <<"4","0">>,
          <<"2","0","2","1","-","0","3","-","0","6">>) >>

RowPool == {RowSeq[i] : i \in 1..Len(RowSeq)}

\* the rows of RowSeq at the positions in S, in the order of RowSeq
RECURSIVE Pick(_, _)
Pick(S, i) ==
    IF i > Len(RowSeq) THEN <<>>
    ELSE (IF i \in S THEN <<RowSeq[i]>> ELSE <<>>) \o Pick(S, i + 1)

\* the files: up to MaxRows rows of the pool, each at most once
Files ==
    {Pick(S, 1) : S \in {T \in SUBSET (1..Len(RowSeq)) :
                             Cardinality(T) <= MaxRows}}

----------------------------------------------------------------------------
(* pandas: frames are sequences of row records; a column is the sequence   *)
(* of one field's values                                                   *)

Column(d, name) == [i \in 1..Len(d) |-> d[i][name]]

\* read_csv type inference for one column: an empty cell is NaN; the column
\* is numeric when every other cell is a number, else its cells stay strings
ReadCell(cells, i) ==
    IF cells[i] = <<>> THEN NaN
    ELSE IF \A j \in 1..Len(cells) : cells[j] = <<>> \/ IsNumericCell(cells[j])
         THEN Num(ParseNumber(cells[i]))
         ELSE Str(cells[i])

ReadText(cell) == IF cell = <<>> THEN NaN ELSE Str(cell)

\* pd.read_csv('work.csv'): one record per data row, labelled 0, 1, ...
read_csv(f) ==
    [i \in 1..Len(f) |->
        [idx |-> i - 1,
         departamento |-> f[i].departamento,
         nivel_educacion |-> f[i].nivel_educacion,
         zona_geografica |-> f[i].zona_geografica,
         modalidad_trabajo |-> f[i].modalidad_trabajo,
         genero |-> f[i].genero,
         edad |-> ReadCell(Column(f, "edad"), i),
         salario_anual |-> ReadCell(Column(f, "salario_anual"), i),
         experiencia_anos |-> ReadCell(Column(f, "experiencia_anos"), i),
         horas_sueno_noche |-> ReadCell(Column(f, "horas_sueno_noche"), i),
         horas_ocio_semana |-> ReadCell(Column(f, "horas_ocio_semana"), i),
         horas_semanales |-> ReadCell(Column(f, "horas_semanales"), i),
         fecha_contratacion |-> ReadText(f[i].fecha_contratacion)]]

----------------------------------------------------------------------------
(* app.py: load_data *)

\* the score clamped to the nominal range 0..10
ScoreClamped(sueno, ocio, sem) ==
    IF sueno.t = "num" /\ ocio.t = "num" /\ sem.t = "num"
    THEN LET x == 4 * sueno.v + 3 * ocio.v + 3 * (500 - sem.v)
         IN  Num(IF x < 0 THEN 0 ELSE IF x > 1000 THEN 1000 ELSE x)
    ELSE NaN

\* sleep*0.4 + leisure*0.3 + (50 - weekly)*0.3, in hundredths; NaN propagates
work_life_balance_score(sueno, ocio, sem) ==
    IF sueno.t = "num" /\ ocio.t = "num" /\ sem.t = "num"
    THEN Num(4 * sueno.v + 3 * ocio.v + 3 * (500 - sem.v))
    ELSE NaN

\* the mapping with a default rank of 0 for unlisted levels
education_order_default(level) ==
    IF level = "Bachillerato" THEN Num(10)
    ELSE IF level = "Licenciatura" THEN Num(20)
    ELSE IF level = "Maestria" THEN Num(30)
    ELSE IF level = "Doctorado" THEN Num(40)
    ELSE Num(0)

\* Series.map(education_order): a level that is no key of the dict maps to NaN
education_order(level) ==
    IF level = "Bachillerato" THEN Num(10)
    ELSE IF level = "Licenciatura" THEN Num(20)
    ELSE IF level = "Maestria" THEN Num(30)
    ELSE IF level = "Doctorado" THEN Num(40)
    ELSE NaN

\* arithmetic on a column that holds strings raises TypeError
ArithmeticRaises(d) ==
    \E i \in 1..Len(d) :
        \/ d[i].horas_sueno_noche.t = "str"
        \/ d[i].horas_ocio_semana.t = "str"
        \/ d[i].horas_semanales.t = "str"

\* a derivation that adds the new score to a score the row already has
DeriveRowAccumulating(r) ==
    LET score == work_life_balance_score(r.horas_sueno_noche,
                     r.horas_ocio_semana, r.horas_semanales)
        prior == IF "work_life_balance_score" \in DOMAIN r
                 THEN r.work_life_balance_score ELSE Num(0)
    IN  [k \in DOMAIN r \cup {"work_life_balance_score",
                              "education_level_num", "count"} |->
            IF k = "salario_anual" THEN to_numeric(r.salario_anual)
            ELSE IF k = "edad" THEN to_numeric(r.edad)
            ELSE IF k = "experiencia_anos" THEN to_numeric(r.experiencia_anos)
            ELSE IF k = "work_life_balance_score"
                 THEN (IF score.t = "num" /\ prior.t = "num"
                       THEN Num(score.v + prior.v) ELSE NaN)
            ELSE IF k = "education_level_num"
                 THEN education_order(r.nivel_educacion)
            ELSE IF k = "count" THEN Num(10)
            ELSE r[k]]

\* the column assignments of load_data, on one row
DeriveRow(r) ==
    [k \in DOMAIN r \cup {"work_life_balance_score",
                          "education_level_num", "count"} |->
        IF k = "salario_anual" THEN to_numeric(r.salario_anual)
        ELSE IF k = "edad" THEN to_numeric(r.edad)
        ELSE IF k = "experiencia_anos" THEN to_numeric(r.experiencia_anos)
        ELSE IF k = "work_life_balance_score"
             THEN work_life_balance_score(r.horas_sueno_noche,
                      r.horas_ocio_semana, r.horas_semanales)
        ELSE IF k = "education_level_num"
             THEN education_order(r.nivel_educacion)
        ELSE IF k = "count" THEN Num(10)
        ELSE r[k]]

\* the body of load_data after read_csv
Derive(d) == [i \in 1..Len(d) |-> DeriveRow(d[i])]

----------------------------------------------------------------------------
(* app.py: sidebar widgets and the filter *)

unique(col) == {col[i] : i \in 1..Len(col)}

NumericValues(col) == {col[i].v : i \in {j \in 1..Len(col) : col[j].t = "num"}}

\* Series.min() and Series.max() skip missing values; NaN when none is left
col_min(col) ==
    IF NumericValues(col) = {} THEN NaN
    ELSE Num(CHOOSE m \in NumericValues(col) :
                 \A x \in NumericValues(col) : m <= x)

col_max(col) ==
    IF NumericValues(col) = {} THEN NaN
    ELSE Num(CHOOSE m \in NumericValues(col) :
                 \A x \in NumericValues(col) : m >= x)

\* int(x) truncates toward zero; int(NaN) raises ValueError
int(x) == IF x.v >= 0 THEN x.v \div 10 ELSE -((-x.v) \div 10)

\* the slider bounds int(df[c].min()), int(df[c].max())
slider_min(d, c) == int(col_min(Column(d, c)))
slider_max(d, c) == int(col_max(Column(d, c)))

\* either slider's int(...) is handed NaN
SliderRaises(d) ==
    \/ col_min(Column(d, "edad")) = NaN
    \/ col_min(Column(d, "salario_anual")) = NaN

\* the values a range slider can hold
SliderValues(d, c) ==
    {p \in (slider_min(d, c)..slider_max(d, c))
             \X (slider_min(d, c)..slider_max(d, c)) : p[1] <= p[2]}

isin(col, values) == [i \in 1..Len(col) |-> col[i] \in values]

\* a strict upper comparison
le_strict(col, n) ==
    [i \in 1..Len(col) |-> col[i].t = "num" /\ col[i].v < 10 * n]

\* column >= n and column <= n, elementwise; False on a missing value
ge(col, n) == [i \in 1..Len(col) |-> col[i].t = "num" /\ col[i].v >= 10 * n]

le(col, n) == [i \in 1..Len(col) |-> col[i].t = "num" /\ col[i].v <= 10 * n]

\* comparing a column that holds strings with a number raises TypeError
CompareRaises(d) ==
    \E i \in 1..Len(d) : d[i].edad.t = "str" \/ d[i].salario_anual.t = "str"

RECURSIVE BoolIndex(_, _)
BoolIndex(d, mask) ==
    IF d = <<>> THEN <<>>
    ELSE IF Head(mask)
         THEN <<Head(d)>> \o BoolIndex(Tail(d), Tail(mask))
         ELSE BoolIndex(Tail(d), Tail(mask))

\* a selection that also drops the selected rows from the frame it reads
getitem_inplace(d, mask) ==
    [base |-> BoolIndex(d, mask), view |-> BoolIndex(d, mask)]

\* a selection that loses the last selected row
getitem_short(d, mask) ==
    [base |-> d,
     view |-> LET v == BoolIndex(d, mask)
              IN  IF Len(v) > 0 THEN SubSeq(v, 1, Len(v) - 1) ELSE v]

\* df[mask]: the selected rows as a new frame; the frame indexed is untouched
getitem(d, mask) == [base |-> d, view |-> BoolIndex(d, mask)]

\* the conjunction of the eight conditions
Mask(d, deps, edus, zs, wms, ar, sr) ==
    [i \in 1..Len(d) |->
        /\ isin(Column(d, "departamento"), deps)[i]
        /\ isin(Column(d, "nivel_educacion"), edus)[i]
        /\ isin(Column(d, "zona_geografica"), zs)[i]
        /\ isin(Column(d, "modalidad_trabajo"), wms)[i]
        /\ ge(Column(d, "edad"), ar[1])[i]
        /\ le(Column(d, "edad"), ar[2])[i]
        /\ ge(Column(d, "salario_anual"), sr[1])[i]
        /\ le(Column(d, "salario_anual"), sr[2])[i]]

\* the statement filtered_df = df[...]
Filter(d, deps, edus, zs, wms, ar, sr) ==
    getitem(d, Mask(d, deps, edus, zs, wms, ar, sr))

\* rows of the dendrogram input: dropna() over three columns
dendro_df(d) ==
    BoolIndex(d, [i \in 1..Len(d) |->
                     /\ d[i].salario_anual.t = "num"
                     /\ d[i].education_level_num.t = "num"
                     /\ d[i].experiencia_anos.t = "num"])

\* scipy linkage raises ValueError on fewer than two observations
LinkageRaises(d) == Len(dendro_df(d)) < 2

----------------------------------------------------------------------------
(* dashboard.py: load_data *)

\* pd.to_datetime raises on a string that is no date
ToDatetimeRaises(d) ==
    \E i \in 1..Len(d) :
        /\ d[i].fecha_contratacion.t = "str"
        /\ ~IsDateCell(d[i].fecha_contratacion.s)

to_datetime(x) == IF x.t = "str" THEN Date(ParseDate(x.s)) ELSE NaT

dashboard_load_data(f) ==
    [i \in 1..Len(f) |->
        [read_csv(f)[i] EXCEPT
            !.fecha_contratacion = to_datetime(read_csv(f)[i].fecha_contratacion)]]

DropColumn(d, name) ==
    [i \in 1..Len(d) |-> [k \in DOMAIN d[i] \ {name} |-> d[i][k]]]

\* load_data on a file with (has) or without the column fecha_contratacion
dashboard_frame(f, has) ==
    IF has THEN dashboard_load_data(f)
    ELSE DropColumn(read_csv(f), "fecha_contratacion")

----------------------------------------------------------------------------
(* dashboard.py: sidebar widgets and apply_filters *)

DateValues(d) ==
    {d[i].fecha_contratacion.v :
        i \in {j \in 1..Len(d) : d[j].fecha_contratacion.t = "date"}}

\* df['fecha_contratacion'].min().date() and .max().date()
min_date(d) == CHOOSE m \in DateValues(d) : \A x \in DateValues(d) : m <= x
max_date(d) == CHOOSE m \in DateValues(d) : \A x \in DateValues(d) : m >= x

\* with no date in the column min() is NaT, which st.date_input cannot
\* format: the widget raises
DateInputRaises(d) == DateValues(d) = {}

\* n = 10000*year + 100*month + day is a day of the calendar
IsDay(n) ==
    /\ (n \div 100) % 100 \in 1..12
    /\ n % 100 >= 1
    /\ n % 100 <= DaysInMonth(n \div 10000, (n \div 100) % 100)

Days(lo, hi) == {n \in lo..hi : IsDay(n)}

\* the values the range date_input hands to the script: (start, end), or
\* (start,) while the user has picked the first day only
DateInputValues(d) ==
    LET days == Days(min_date(d), max_date(d))
    IN  {p \in days \X days : p[1] <= p[2]} \cup {<<a>> : a \in days}

\* int(df["edad"].min()), int(df["edad"].max()): the column is not coerced;
\* int() raises ValueError on NaN (no age at all) and on a string that is no
\* integer (an object column, whose greatest string here is the non-number)
DashSliderRaises(d) == NumericValues(Column(d, "edad")) = {}

ge_date(col, v) == [i \in 1..Len(col) |-> col[i].t = "date" /\ col[i].v >= v]

le_date(col, v) == [i \in 1..Len(col) |-> col[i].t = "date" /\ col[i].v <= v]

\* the five conditions of the first selection of apply_filters
DashMask(d, deps, gens, mods, amin, amax) ==
    [i \in 1..Len(d) |->
        /\ isin(Column(d, "departamento"), deps)[i]
        /\ isin(Column(d, "genero"), gens)[i]
        /\ isin(Column(d, "modalidad_trabajo"), mods)[i]
        /\ ge(Column(d, "edad"), amin)[i]
        /\ le(Column(d, "edad"), amax)[i]]

\* date_range[1] on a one-element tuple raises IndexError; None and the
\* missing column skip the date selection (<<>> stands for None)
ApplyFiltersRaises(dr, has) == dr # <<>> /\ has /\ Len(dr) < 2

\* what apply_filters returns when it returns
apply_filters(d, deps, gens, mods, amin, amax, dr, has) ==
    LET first == getitem(d, DashMask(d, deps, gens, mods, amin, amax)).view
        fechas == Column(first, "fecha_contratacion")
    IN  IF dr # <<>> /\ has
        THEN getitem(first,
                     [i \in 1..Len(first) |->
                         ge_date(fechas, dr[1])[i] /\ le_date(fechas, dr[2])[i]]
                    ).view
        ELSE first

----------------------------------------------------------------------------
(* State *)

VARIABLES
    file,               \* rows of work.csv
    has_fecha,          \* work.csv has the column fecha_contratacion
    script,             \* the script this process serves
    parsed,             \* the rows load_data read when its body last ran
    loads,              \* executions of the body of load_data so far
    evals,              \* filter evaluations during the latest interaction
    last,               \* the latest event
    cache,              \* st.cache_data entry of app.py's load_data
    started,            \* app.py has been executed in this session
    df,                 \* app.py: df at the end of the latest execution
    departments,        \* app.py: widget values
    education_levels,
    zones,
    work_modes,
    age_range,
    salary_range,
    filtered_df,        \* app.py: filtered_df of the latest execution
    err,                \* app.py: exception that ended the latest execution
    edits,              \* widget changes so far
    dash_cache,         \* st.cache_data entry of dashboard.py's load_data
    dash_df,            \* dashboard.py: df of the latest execution
    dash_err,           \* dashboard.py: outcome of the latest execution
    date_range,         \* dashboard.py: widget values
    deptos,
    generos,
    modalidades,
    age_min,
    age_max,
    filtro_df           \* dashboard.py: filtro_df of the latest execution

appVars == <<cache, started, df, departments, education_levels, zones,
             work_modes, age_range, salary_range, filtered_df, err>>

dashVars == <<dash_cache, dash_df, dash_err, date_range, deptos, generos,
              modalidades, age_min, age_max, filtro_df>>

envVars == <<file, has_fecha, script>>

vars == <<envVars, parsed, loads, evals, last, edits, appVars, dashVars>>

\* app.py never reads fecha_contratacion, so it is served files that have
\* the column; dashboard.py is served files with and without it.
Init ==
    /\ file \in Files
    /\ script \in {"app.py", "dashboard.py"}
    /\ has_fecha \in (IF script = "app.py" THEN {TRUE} ELSE BOOLEAN)
    /\ parsed = <<>>
    /\ loads = 0
    /\ evals = 0
    /\ last = "none"
    /\ cache = [loaded |-> FALSE, df |-> <<>>]
    /\ started = FALSE
    /\ df = <<>>
    /\ departments = {}
    /\ education_levels = {}
    /\ zones = {}
    /\ work_modes = {}
    /\ age_range = <<0, 0>>
    /\ salary_range = <<0, 0>>
    /\ filtered_df = <<>>
    /\ err = "none"
    /\ edits = 0
    /\ dash_cache = [loaded |-> FALSE, df |-> <<>>]
    /\ dash_df = <<>>
    /\ dash_err = "notrun"
    /\ date_range = <<>>
    /\ deptos = {}
    /\ generos = {}
    /\ modalidades = {}
    /\ age_min = 0
    /\ age_max = 0
    /\ filtro_df = <<>>

\* One execution of app.py.  fresh: the widgets take their defaults;
\* otherwise they hold deps, edus, zs, wms, ar, sr.
Run(fresh, deps, edus, zs, wms, ar, sr) ==
    LET frame == read_csv(file)
        data == IF cache.loaded THEN cache.df ELSE Derive(frame)
    IN  /\ started' = TRUE
        /\ loads' = IF cache.loaded THEN loads ELSE loads + 1
        /\ parsed' = IF cache.loaded THEN parsed ELSE file
        /\ IF ~cache.loaded /\ ArithmeticRaises(frame)
           THEN /\ err' = "TypeError@load_data"
                /\ evals' = 0
                /\ df' = <<>>
                /\ filtered_df' = <<>>
                /\ UNCHANGED <<cache, departments, education_levels, zones,
                               work_modes, age_range, salary_range>>
           ELSE /\ cache' = [loaded |-> TRUE, df |-> data]
                /\ departments' =
                     IF fresh THEN unique(Column(data, "departamento"))
                     ELSE deps
                /\ education_levels' =
                     IF fresh THEN unique(Column(data, "nivel_educacion"))
                     ELSE edus
                /\ zones' =
                     IF fresh THEN unique(Column(data, "zona_geografica"))
                     ELSE zs
                /\ work_modes' =
                     IF fresh THEN unique(Column(data, "modalidad_trabajo"))
                     ELSE wms
                /\ IF SliderRaises(data)
                   THEN /\ err' = "ValueError@slider"
                        /\ evals' = 0
                        /\ df' = data
                        /\ filtered_df' = <<>>
                        /\ UNCHANGED <<age_range, salary_range>>
                   ELSE /\ age_range' =
                             IF fresh THEN <<slider_min(data, "edad"),
                                             slider_max(data, "edad")>>
                             ELSE ar
                        /\ salary_range' =
                             IF fresh
                             THEN <<slider_min(data, "salario_anual"),
                                    slider_max(data, "salario_anual")>>
                             ELSE sr
                        /\ IF CompareRaises(data)
                           THEN /\ err' = "TypeError@filter"
                                /\ evals' = 0
                                /\ df' = data
                                /\ filtered_df' = <<>>
                           ELSE LET g == Filter(data, departments',
                                             education_levels', zones',
                                             work_modes', age_range',
                                             salary_range')
                                IN  /\ df' = g.base
                                    /\ evals' = 1
                                    /\ filtered_df' = g.view
                                    /\ err' = IF LinkageRaises(g.view)
                                              THEN "ValueError@linkage"
                                              ELSE "none"

\* the session's first execution of app.py
FirstRun ==
    /\ ~started
    /\ script = "app.py"
    /\ Run(TRUE, {}, {}, {}, {}, <<0, 0>>, <<0, 0>>)
    /\ last' = "start"
    /\ UNCHANGED <<envVars, edits, dashVars>>

\* the widgets are on the page once an execution has got as far as them
MultiselectsShown == started /\ cache.loaded
SlidersShown == MultiselectsShown /\ ~SliderRaises(cache.df)

\* a widget change of app.py
Edit ==
    /\ edits < MaxEdits
    /\ edits' = edits + 1
    /\ last' = "widget"
    /\ UNCHANGED <<envVars, dashVars>>

ChangeDepartments ==
    /\ MultiselectsShown
    /\ \E sel \in SUBSET unique(Column(cache.df, "departamento")) :
          /\ sel # departments
          /\ Run(FALSE, sel, education_levels, zones, work_modes,
                 age_range, salary_range)
    /\ Edit

ChangeEducationLevels ==
    /\ MultiselectsShown
    /\ \E sel \in SUBSET unique(Column(cache.df, "nivel_educacion")) :
          /\ sel # education_levels
          /\ Run(FALSE, departments, sel, zones, work_modes,
                 age_range, salary_range)
    /\ Edit

ChangeZones ==
    /\ MultiselectsShown
    /\ \E sel \in SUBSET unique(Column(cache.df, "zona_geografica")) :
          /\ sel # zones
          /\ Run(FALSE, departments, education_levels, sel, work_modes,
                 age_range, salary_range)
    /\ Edit

ChangeWorkModes ==
    /\ MultiselectsShown
    /\ \E sel \in SUBSET unique(Column(cache.df, "modalidad_trabajo")) :
          /\ sel # work_modes
          /\ Run(FALSE, departments, education_levels, zones, sel,
                 age_range, salary_range)
    /\ Edit

ChangeAgeRange ==
    /\ SlidersShown
    /\ \E r \in SliderValues(cache.df, "edad") :
          /\ r # age_range
          /\ Run(FALSE, departments, education_levels, zones, work_modes,
                 r, salary_range)
    /\ Edit

ChangeSalaryRange ==
    /\ SlidersShown
    /\ \E r \in SliderValues(cache.df, "salario_anual") :
          /\ r # salary_range
          /\ Run(FALSE, departments, education_levels, zones, work_modes,
                 age_range, r)
    /\ Edit

\* the source file is rewritten, once, after the process has parsed it: its
\* last data row is deleted
SourceChange ==
    /\ loads > 0
    /\ file = parsed
    /\ Len(file) > 0
    /\ file' = SubSeq(file, 1, Len(file) - 1)
    /\ last' = "source"
    /\ UNCHANGED <<has_fecha, script, parsed, loads, evals, edits,
                   appVars, dashVars>>

\* runs consecutive executions of dashboard.py with the same widget values.
\* fresh: the widgets take their defaults; otherwise they hold dr, deps, gens,
\* mods, amin, amax.
DashRun(fresh, dr, deps, gens, mods, amin, amax, runs) ==
    LET data == IF dash_cache.loaded THEN dash_cache.df
                ELSE dashboard_frame(file, has_fecha)
    IN  /\ loads' = IF dash_cache.loaded THEN loads ELSE loads + 1
        /\ parsed' = IF dash_cache.loaded THEN parsed ELSE file
        /\ IF ~dash_cache.loaded /\ has_fecha
                /\ ToDatetimeRaises(read_csv(file))
           THEN /\ dash_err' = "ValueError@to_datetime"
                /\ evals' = 0
                /\ dash_df' = <<>>
                /\ filtro_df' = <<>>
                /\ UNCHANGED <<dash_cache, date_range, deptos, generos,
                               modalidades, age_min, age_max>>
           ELSE /\ dash_cache' = [loaded |-> TRUE, df |-> data]
                /\ dash_df' = data
                /\ IF has_fecha /\ DateInputRaises(data)
                   THEN /\ dash_err' = "ValueError@date_input"
                        /\ evals' = 0
                        /\ filtro_df' = <<>>
                        /\ UNCHANGED <<date_range, deptos, generos,
                                       modalidades, age_min, age_max>>
                   ELSE /\ date_range' =
                             IF ~has_fecha THEN <<>>
                             ELSE IF fresh
                                  THEN <<min_date(data), max_date(data)>>
                                  ELSE dr
                        /\ deptos' =
                             IF fresh
                             THEN unique(Column(data, "departamento"))
                             ELSE deps
                        /\ generos' =
                             IF fresh THEN unique(Column(data, "genero"))
                             ELSE gens
                        /\ modalidades' =
                             IF fresh
                             THEN unique(Column(data, "modalidad_trabajo"))
                             ELSE mods
                        /\ IF DashSliderRaises(data)
                           THEN /\ dash_err' = "ValueError@slider"
                                /\ evals' = 0
                                /\ filtro_df' = <<>>
                                /\ UNCHANGED <<age_min, age_max>>
                           ELSE /\ age_min' = IF fresh
                                              THEN slider_min(data, "edad")
                                              ELSE amin
                                /\ age_max' = IF fresh
                                              THEN slider_max(data, "edad")
                                              ELSE amax
                                /\ IF ApplyFiltersRaises(date_range',
                                                         has_fecha)
                                   THEN /\ dash_err' =
                                             "IndexError@apply_filters"
                                        /\ evals' = 0
                                        /\ filtro_df' = <<>>
                                   ELSE /\ dash_err' = "none"
                                        /\ evals' = runs
                                        /\ filtro_df' =
                                             apply_filters(data, deptos',
                                                 generos', modalidades',
                                                 age_min', age_max',
                                                 date_range', has_fecha)

\* the session's first execution of dashboard.py
DashboardFirstRun ==
    /\ dash_err = "notrun"
    /\ script = "dashboard.py"
    /\ DashRun(TRUE, <<>>, {}, {}, {}, 0, 0, 1)
    /\ last' = "start"
    /\ UNCHANGED <<envVars, edits, appVars>>

\* the widgets are on the page once an execution has got as far as them
DateInputShown ==
    dash_cache.loaded /\ has_fecha /\ ~DateInputRaises(dash_cache.df)
DashMultiselectsShown ==
    dash_cache.loaded /\ ~(has_fecha /\ DateInputRaises(dash_cache.df))
DashSliderShown == DashMultiselectsShown /\ ~DashSliderRaises(dash_cache.df)

\* a widget change of dashboard.py
DashEdit ==
    /\ edits < MaxEdits
    /\ edits' = edits + 1
    /\ last' = "widget"
    /\ UNCHANGED <<envVars, appVars>>

ChangeDateRange ==
    /\ DateInputShown
    /\ \E dr \in DateInputValues(dash_cache.df) :
          /\ dr # date_range
          /\ DashRun(FALSE, dr, deptos, generos, modalidades,
                     age_min, age_max, 1)
    /\ DashEdit

ChangeDeptos ==
    /\ DashMultiselectsShown
    /\ \E sel \in SUBSET unique(Column(dash_cache.df, "departamento")) :
          /\ sel # deptos
          /\ DashRun(FALSE, date_range, sel, generos, modalidades,
                     age_min, age_max, 1)
    /\ DashEdit

ChangeGeneros ==
    /\ DashMultiselectsShown
    /\ \E sel \in SUBSET unique(Column(dash_cache.df, "genero")) :
          /\ sel # generos
          /\ DashRun(FALSE, date_range, deptos, sel, modalidades,
                     age_min, age_max, 1)
    /\ DashEdit

ChangeModalidades ==
    /\ DashMultiselectsShown
    /\ \E sel \in SUBSET unique(Column(dash_cache.df, "modalidad_trabajo")) :
          /\ sel # modalidades
          /\ DashRun(FALSE, date_range, deptos, generos, sel,
                     age_min, age_max, 1)
    /\ DashEdit

ChangeAge ==
    /\ DashSliderShown
    /\ \E r \in SliderValues(dash_cache.df, "edad") :
          /\ r # <<age_min, age_max>>
          /\ DashRun(FALSE, date_range, deptos, generos, modalidades,
                     r[1], r[2], 1)
    /\ DashEdit

\* "Reset All Filters": the press re-executes the script with the button
\* True, st.rerun() at line 123 stops that execution after apply_filters and
\* starts another one; the widgets keep their values through both
ResetAllFilters ==
    /\ dash_err = "none"
    /\ DashRun(FALSE, date_range, deptos, generos, modalidades,
               age_min, age_max, 2)
    /\ last' = "reset"
    /\ UNCHANGED <<envVars, edits, appVars>>

Next ==
    \/ FirstRun
    \/ ChangeDepartments
    \/ ChangeEducationLevels
    \/ ChangeZones
    \/ ChangeWorkModes
    \/ ChangeAgeRange
    \/ ChangeSalaryRange
    \/ DashboardFirstRun
    \/ ChangeDateRange
    \/ ChangeDeptos
    \/ ChangeGeneros
    \/ ChangeModalidades
    \/ ChangeAge
    \/ ResetAllFilters
    \/ SourceChange

Spec == Init /\ [][Next]_vars

----------------------------------------------------------------------------
(* Properties *)

\* the latest execution of app.py got past the statement filtered_df = df[...]
FilterEvaluated == started /\ err \in {"none", "ValueError@linkage"}

\* a record satisfies the filter specification held by the widgets
Matches(r) ==
    /\ r.departamento \in departments
    /\ r.nivel_educacion \in education_levels
    /\ r.zona_geografica \in zones
    /\ r.modalidad_trabajo \in work_modes
    /\ r.edad.t = "num"
    /\ 10 * age_range[1] <= r.edad.v /\ r.edad.v <= 10 * age_range[2]
    /\ r.salario_anual.t = "num"
    /\ 10 * salary_range[1] <= r.salario_anual.v
    /\ r.salario_anual.v <= 10 * salary_range[2]

Labels(d) == {d[i].idx : i \in 1..Len(d)}

\* C1: the filter returns exactly the records whose four categorical fields
\* are in the selected sets and whose age and salary lie in the inclusive
\* ranges, in the order of the input; an empty selection yields no records.
C1_FilterExact ==
    FilterEvaluated =>
        /\ filtered_df = SelectSeq(df, Matches)
        /\ \A i, j \in 1..Len(filtered_df) :
               i < j => filtered_df[i].idx < filtered_df[j].idx
        /\ ( \/ departments = {} \/ education_levels = {}
             \/ zones = {} \/ work_modes = {} ) => filtered_df = <<>>

\* C1 witness: a filter that keeps, in order, a record on each bound of the
\* age range
C1_Witness ==
    /\ FilterEvaluated
    /\ Len(filtered_df) = 2
    /\ \E i \in 1..2 : filtered_df[i].edad.v = 10 * age_range[1]
    /\ \E i \in 1..2 : filtered_df[i].edad.v = 10 * age_range[2]
    /\ age_range[1] < age_range[2]

\* the widgets hold the selection they are created with
AtDefaults ==
    /\ departments = unique(Column(df, "departamento"))
    /\ education_levels = unique(Column(df, "nivel_educacion"))
    /\ zones = unique(Column(df, "zona_geografica"))
    /\ work_modes = unique(Column(df, "modalidad_trabajo"))
    /\ age_range = <<slider_min(df, "edad"), slider_max(df, "edad")>>
    /\ salary_range = <<slider_min(df, "salario_anual"),
                        slider_max(df, "salario_anual")>>

\* C2: with every category selected and both ranges at the widgets' default
\* bounds, the filter returns the whole derived dataset in its order.
C2_FullSpecReturnsAll ==
    (FilterEvaluated /\ AtDefaults) => filtered_df = df

\* C3: filtering the filtered records again with the same specification
\* returns the same records.
C3_FilterIdempotent ==
    FilterEvaluated =>
        Filter(filtered_df, departments, education_levels, zones,
               work_modes, age_range, salary_range).view = filtered_df

\* C3 witness: a changed filter that kept one record of two
C3_Witness ==
    /\ FilterEvaluated
    /\ Len(filtered_df) = 1
    /\ Len(df) = 2
    /\ edits > 0

\* C4: once loaded, the cached dataset never changes, and the dataset an
\* execution ends with is the cached one: filtering only produces a view.
C4_BaseNeverMutated ==
    [][cache.loaded => (cache' = cache /\ df' = cache.df)]_vars

\* C4 witness: a filter dropped records while the base dataset kept them
C4_Witness ==
    /\ FilterEvaluated
    /\ edits = MaxEdits
    /\ Len(filtered_df) < Len(df)
    /\ df = cache.df
    /\ Len(df) = Len(parsed)

\* C5: a record whose age or salary is missing or non-numeric is excluded by
\* the range filter, the comparison raises nothing, and the record is still
\* in the unfiltered dataset with that field marked missing.
C5_MissingExcludedNotLost ==
    (started /\ cache.loaded) =>
        /\ err # "TypeError@filter"
        /\ Len(df) = Len(parsed)
        /\ \A i \in 1..Len(df) :
              /\ df[i].idx = i - 1
              /\ ~IsNumericCell(parsed[i].edad) =>
                     /\ df[i].edad = NaN
                     /\ FilterEvaluated => (i - 1) \notin Labels(filtered_df)
              /\ ~IsNumericCell(parsed[i].salario_anual) =>
                     /\ df[i].salario_anual = NaN
                     /\ FilterEvaluated => (i - 1) \notin Labels(filtered_df)

\* C5 witness: a filter was evaluated over a dataset holding a record with a
\* non-numeric age and kept another record
C5_Witness ==
    /\ FilterEvaluated
    /\ \E i \in 1..Len(df) : parsed[i].edad = <<"x">> /\ df[i].edad = NaN
    /\ filtered_df # <<>>
    /\ AtDefaults

\* C6: a filter matching no record yields an empty sequence and the
\* execution, presentation included, ends without an error.
C6_EmptyResultNoError ==
    (started /\ cache.loaded /\ ~SliderRaises(cache.df)
        /\ SelectSeq(df, Matches) = <<>>) =>
            (filtered_df = <<>> /\ err = "none")

\* the fields of row i whose parse the claim is about hold numbers or the
\* missing marker, every other field what the file holds
FieldsKept(d, i) ==
    /\ d[i].departamento = parsed[i].departamento
    /\ d[i].nivel_educacion = parsed[i].nivel_educacion
    /\ d[i].zona_geografica = parsed[i].zona_geografica
    /\ d[i].modalidad_trabajo = parsed[i].modalidad_trabajo
    /\ \A c \in {"edad", "salario_anual", "experiencia_anos",
                 "horas_sueno_noche", "horas_ocio_semana", "horas_semanales"} :
          d[i][c] = IF IsNumericCell(parsed[i][c])
                    THEN Num(ParseNumber(parsed[i][c])) ELSE NaN

\* no cell of the three hour columns used by the score is a non-number
HoursClean ==
    \A i \in 1..Len(parsed) :
        \A c \in {"horas_sueno_noche", "horas_ocio_semana", "horas_semanales"} :
            parsed[i][c] = <<>> \/ IsNumericCell(parsed[i][c])

\* C7: a non-numeric age, salary or experience or an unparsable hire date
\* makes only that field missing: either load_data completes with one
\* record per row whose other fields hold what the file holds.
C7_FieldFailureDegrades ==
    /\ (started /\ HoursClean) =>
          /\ cache.loaded
          /\ Len(cache.df) = Len(parsed)
          /\ \A i \in 1..Len(parsed) : FieldsKept(cache.df, i)
    /\ (dash_err # "notrun" /\ has_fecha) =>
          /\ dash_cache.loaded
          /\ Len(dash_cache.df) = Len(parsed)
          /\ \A i \in 1..Len(parsed) :
                /\ dash_cache.df[i].departamento = parsed[i].departamento
                /\ dash_cache.df[i].fecha_contratacion =
                       IF IsDateCell(parsed[i].fecha_contratacion)
                       THEN Date(ParseDate(parsed[i].fecha_contratacion))
                       ELSE NaT

\* C8: for a row with numeric sleep, leisure and weekly hours the score is
\* 0.4*sleep + 0.3*leisure + 0.3*(50 - weekly), unclamped (here in
\* hundredths, the hours in tenths); sleep 8, leisure 10, weekly 40 give 9.2.
C8_ScoreFormula ==
    cache.loaded =>
        \A i \in 1..Len(cache.df) :
            LET r == cache.df[i]
                s == parsed[i].horas_sueno_noche
                l == parsed[i].horas_ocio_semana
                w == parsed[i].horas_semanales
            IN  (IsNumericCell(s) /\ IsNumericCell(l) /\ IsNumericCell(w)) =>
                  /\ r.work_life_balance_score.t = "num"
                  /\ r.work_life_balance_score.v =
                        4 * ParseNumber(s) + 3 * ParseNumber(l)
                            + 3 * (500 - ParseNumber(w))
                  /\ (s = <<"8">> /\ l = <<"1", "0">> /\ w = <<"4", "0">>) =>
                        r.work_life_balance_score.v = 920

\* C8 witness: a loaded dataset with a negative score and one above 10
C8_Witness ==
    /\ cache.loaded
    /\ \E i \in 1..Len(cache.df) :
          /\ cache.df[i].work_life_balance_score.t = "num"
          /\ cache.df[i].work_life_balance_score.v < 0
    /\ \E i \in 1..Len(cache.df) :
          /\ cache.df[i].work_life_balance_score.t = "num"
          /\ cache.df[i].work_life_balance_score.v > 1000

KnownLevels == {"Bachillerato", "Licenciatura", "Maestria", "Doctorado"}

\* C9: the education rank is 1, 2, 3, 4 on Bachillerato, Licenciatura,
\* Maestria, Doctorado; any other level gets the missing marker and the load
\* completes.
C9_EducationRank ==
    /\ cache.loaded =>
          \A i \in 1..Len(cache.df) :
              LET level == parsed[i].nivel_educacion
                  rank == cache.df[i].education_level_num
              IN  /\ level = "Bachillerato" => rank = Num(10)
                  /\ level = "Licenciatura" => rank = Num(20)
                  /\ level = "Maestria" => rank = Num(30)
                  /\ level = "Doctorado" => rank = Num(40)
                  /\ level \notin KnownLevels => rank = NaN
    /\ (started /\ HoursClean) => cache.loaded

\* C9 witness: a loaded dataset with a known and an unknown education level
C9_Witness ==
    /\ cache.loaded
    /\ \E i \in 1..Len(cache.df) :
          /\ cache.df[i].nivel_educacion \notin KnownLevels
          /\ cache.df[i].education_level_num = NaN
    /\ \E i \in 1..Len(cache.df) :
          cache.df[i].education_level_num = Num(40)

\* C10: deriving the derived dataset again leaves the record count and every
\* raw and derived field as they are.
C10_DeriveIdempotent ==
    cache.loaded =>
        /\ ~ArithmeticRaises(cache.df)
        /\ Derive(cache.df) = cache.df
        /\ Len(Derive(cache.df)) = Len(parsed)

\* C10 witness: a loaded dataset in which a coercion produced a missing
\* value and a score was computed
C10_Witness ==
    /\ cache.loaded
    /\ \E i \in 1..Len(cache.df) :
          /\ parsed[i].experiencia_anos = <<"x">>
          /\ cache.df[i].experiencia_anos = NaN
    /\ \E i \in 1..Len(cache.df) :
          cache.df[i].work_life_balance_score.t = "num"

\* C11: load_data's body runs at most once, and every widget change is
\* followed by exactly one evaluation of the filter and by no new parse of
\* the file.
C11_LoadOnceFilterPerChange ==
    /\ loads <= 1
    /\ last = "widget" => evals = 1

\* C12: after the source file has changed, the next execution parses it
\* again and the dataset it uses is the one the changed file gives.
C12_NoStaleDataset ==
    /\ (last \in {"widget", "reset"}) => parsed = file
    /\ (last = "widget" /\ script = "app.py" /\ cache.loaded) =>
          df = Derive(read_csv(file))
    /\ (last \in {"widget", "reset"} /\ script = "dashboard.py"
            /\ dash_cache.loaded) =>
          dash_df = dashboard_frame(file, has_fecha)

\* the widgets of dashboard.py hold the selection they are created with
DashAtDefaults ==
    /\ deptos = unique(Column(dash_df, "departamento"))
    /\ generos = unique(Column(dash_df, "genero"))
    /\ modalidades = unique(Column(dash_df, "modalidad_trabajo"))
    /\ age_min = slider_min(dash_df, "edad")
    /\ age_max = slider_max(dash_df, "edad")
    /\ has_fecha => date_range = <<min_date(dash_df), max_date(dash_df)>>

\* C13: the execution that follows a press of "Reset All Filters" has every
\* filter of dashboard.py at its default and filtro_df is the result of the
\* default filters.
C13_ResetRestoresDefaults ==
    last = "reset" =>
        /\ DashAtDefaults
        /\ filtro_df =
              apply_filters(dash_df,
                  unique(Column(dash_df, "departamento")),
                  unique(Column(dash_df, "genero")),
                  unique(Column(dash_df, "modalidad_trabajo")),
                  slider_min(dash_df, "edad"), slider_max(dash_df, "edad"),
                  IF has_fecha
                  THEN <<min_date(dash_df), max_date(dash_df)>> ELSE <<>>,
                  has_fecha)

\* the latest execution of dashboard.py called apply_filters
ApplyFiltersCalled ==
    dash_err \in {"none", "IndexError@apply_filters"}

\* a record passes the five conditions of the first selection
DashMatches(r) ==
    /\ r.departamento \in deptos
    /\ r.genero \in generos
    /\ r.modalidad_trabajo \in modalidades
    /\ r.edad.t = "num"
    /\ 10 * age_min <= r.edad.v /\ r.edad.v <= 10 * age_max

\* a record's hire date lies in the selected range
InDateRange(r) ==
    /\ r.fecha_contratacion.t = "date"
    /\ date_range[1] <= r.fecha_contratacion.v
    /\ r.fecha_contratacion.v <= date_range[2]

\* C14: apply_filters returns for every value of the date range, a single
\* date and a missing date column included, and an applied date range keeps
\* exactly the records whose hire date is in [start, end].
C14_ApplyFiltersTotal ==
    ApplyFiltersCalled =>
        /\ dash_err = "none"
        /\ (has_fecha /\ date_range # <<>>) =>
              filtro_df = SelectSeq(SelectSeq(dash_df, DashMatches),
                                    InDateRange)
        /\ (~has_fecha \/ date_range = <<>>) =>
              filtro_df = SelectSeq(dash_df, DashMatches)

====
